---- MODULE Spec2Model ----
(***************************************************************************)
(* Model of the two utilities of the customer-issue-deduplication demo:    *)
(*   - snowflake_sql_magics.py : the %snowauth / %%snowsql IPython magics  *)
(*   - convert_snowflake_notebook.py : the notebook converter              *)
(*                                                                         *)
(* Texts (SQL cells, magic lines, notebook sources) are sequences of       *)
(* atoms.  An atom is either one special character (quote, double quote,   *)
(* semicolon, blank) or an indivisible word of ordinary characters.        *)
(***************************************************************************)
EXTENDS Integers, Sequences, FiniteSets, TLC

VARIABLES
    conn, initialized, account, user, role, private_key_path,
    private_key_passphrase,          \* SnowflakeSqlMagics fields
    user_ns,                         \* self.shell.user_ns
    pc, out,                         \* host prompt position, effects of the last command
    authSucceeded,                   \* history: some %snowauth printed success
    sql_query, statements,           \* the statement splitter's input and result
    files, report                    \* the converter's file system and its last run

vars == <<conn, initialized, account, user, role, private_key_path,
          private_key_passphrase, user_ns, pc, out, authSucceeded,
          sql_query, statements, files, report>>

sessionVars == <<conn, initialized, account, user, role, private_key_path,
                 private_key_passphrase, user_ns, pc, out, authSucceeded>>
splitVars == <<sql_query, statements>>
convVars == <<files, report>>

None == "None"

-----------------------------------------------------------------------------
(* Bounds *)

MaxTextLen == 5      \* atoms in a text given to the splitter
MaxStatements == 2   \* statements in a %%snowsql cell
MaxCells == 2        \* cells in an input notebook
MaxRuns == 2         \* converter runs in one behaviour

-----------------------------------------------------------------------------
(* Text helpers *)

RECURSIVE SeqsUpTo(_, _)
SeqsUpTo(S, n) ==
    IF n = 0 THEN {<<>>}
    ELSE LET shorter == SeqsUpTo(S, n - 1)
         IN shorter \cup {Append(s, a) : s \in {t \in shorter : Len(t) = n - 1}, a \in S}

Whitespace == {" "}

\* str.strip()
RECURSIVE LStrip(_)
LStrip(s) == IF s # <<>> /\ Head(s) \in Whitespace THEN LStrip(Tail(s)) ELSE s

RECURSIVE RStrip(_)
RStrip(s) ==
    IF s # <<>> /\ s[Len(s)] \in Whitespace THEN RStrip(SubSeq(s, 1, Len(s) - 1)) ELSE s

Strip(s) == RStrip(LStrip(s))

\* str.upper() on one atom
Upper(a) ==
    CASE a = "insert" -> "INSERT"
      [] a = "show" -> "SHOW"
      [] OTHER -> a

-----------------------------------------------------------------------------
(* The statement splitter: re.split on the look-ahead regular expression   *)

\* (?:[^'"]|'[^']*'|"[^"]*")*$ matched against the text from position i on:
\* q is the quote the scan is inside of, or None.
RECURSIVE LookaheadMatches(_, _, _)
LookaheadMatches(text, i, q) ==
    IF i > Len(text) THEN q = None
    ELSE IF q = None
         THEN IF text[i] \in {"'", "\""}
              THEN LookaheadMatches(text, i + 1, text[i])
              ELSE LookaheadMatches(text, i + 1, None)
         ELSE IF text[i] = q
              THEN LookaheadMatches(text, i + 1, None)
              ELSE LookaheadMatches(text, i + 1, q)

\* the positions at which the pattern matches
SplitMatches(text) ==
    {i \in 1..Len(text) : text[i] = ";" /\ LookaheadMatches(text, i + 1, None)}

\* re.split: the pieces between the matches, empty pieces included
RECURSIVE ReSplit(_, _, _, _)
ReSplit(text, matches, start, i) ==
    IF i > Len(text) THEN <<SubSeq(text, start, Len(text))>>
    ELSE IF i \in matches
         THEN <<SubSeq(text, start, i - 1)>> \o ReSplit(text, matches, i + 1, i + 1)
         ELSE ReSplit(text, matches, start, i + 1)

\* [s.strip() for s in statements if s.strip()]
RECURSIVE StripNonEmpty(_)
StripNonEmpty(pieces) ==
    IF pieces = <<>> THEN <<>>
    ELSE IF Strip(Head(pieces)) # <<>>
         THEN <<Strip(Head(pieces))>> \o StripNonEmpty(Tail(pieces))
         ELSE StripNonEmpty(Tail(pieces))

SplitStatements(text) == StripNonEmpty(ReSplit(text, SplitMatches(text), 1, 1))

-----------------------------------------------------------------------------
(* SnowflakeSqlMagics *)

ParamNames == {"account", "user", "role", "private_key_path", "private_key_passphrase"}

Truthy(v) == v # None

\* Python's  a or b
Or(a, b) == IF Truthy(a) THEN a ELSE b

Self == [conn |-> conn, initialized |-> initialized, account |-> account,
         user |-> user, role |-> role, private_key_path |-> private_key_path,
         private_key_passphrase |-> private_key_passphrase]

\* the keyword arguments of snowflake.connector.connect
ConnectParams(self) ==
    [account |-> self.account, user |-> self.user, role |-> self.role,
     private_key_path |-> self.private_key_path,
     private_key_passphrase |-> self.private_key_passphrase]

NoConnection == [exists |-> FALSE, closed |-> FALSE,
                 params |-> [p \in ParamNames |-> None]]

\* not self.conn or self.conn.is_closed()
NeedsConnect(self) == ~self.conn.exists \/ self.conn.closed

\* connectOk: whether snowflake.connector.connect returns or raises
_create_connection(self, connectOk) ==
    IF NeedsConnect(self)
    THEN IF connectOk
         THEN [self |-> [self EXCEPT !.conn = [exists |-> TRUE, closed |-> FALSE,
                                               params |-> ConnectParams(self)]],
               raised |-> FALSE, connects |-> <<ConnectParams(self)>>]
         ELSE [self |-> self, raised |-> TRUE, connects |-> <<ConnectParams(self)>>]
    ELSE [self |-> self, raised |-> FALSE, connects |-> <<>>]

Console(text) == [op |-> "print", type |-> "str", text |-> text, stmt |-> 0]
Message(text) == [type |-> "str", text |-> text, stmt |-> 0]
DataFrame(k) == [type |-> "DataFrame", text |-> "", stmt |-> k]

MsgInitializing == "Initializing new Snowflake connection..."
MsgMissing == "Error: Missing connection parameters for initialization."
MsgConnected == "Snowflake connection successful."
MsgInitFailed == "An error occurred in initialization"
MsgNotInitialized == "Error: Snowflake connection not initialized. Please run %snowauth first."
MsgMultiple == "Warning: Multiple DataFrames returned, only the last one will be assigned."
MsgStored == "Result stored in DataFrame."
MsgNoDataFrame == "Warning: No DataFrame returned to assign."
MsgNoResults == "Query executed successfully, but it did not produce any results to display."
MsgError == "An error occurred"
MsgShowEmpty == "Show command executed successfully, but it did not produce any results to display."
MsgStatementOk == "Statement executed successfully."

\* what the warehouse does with one statement
Outcomes == {"cursor_raises", "execute_raises", "rows", "empty", "not_supported",
             "no_description"}
Raising == {"cursor_raises", "execute_raises"}

\* statement.strip().split(maxsplit=1)[0].upper()
RECURSIVE FirstToken(_)
FirstToken(s) ==
    IF s = <<>> \/ Head(s) \in Whitespace THEN <<>>
    ELSE <<Upper(Head(s))>> \o FirstToken(Tail(s))

statement_type(statement) == FirstToken(Strip(statement))

message_map(t) ==
    CASE t = <<"INSERT">> -> "Number of rows inserted"
      [] t = <<"UPDATE">> -> "Number of rows updated"
      [] t = <<"DELETE">> -> "Number of rows deleted"
      [] t = <<"MERGE">> -> "Number of rows affected"

IsDml(t) == t \in {<<"INSERT">>, <<"UPDATE">>, <<"DELETE">>, <<"MERGE">>}

\* the results one successfully executed statement appends
StatementResults(statement, k, outcome) ==
    LET t == statement_type(statement)
    IN  IF IsDml(t) THEN <<Message(message_map(t))>>
        ELSE IF outcome \in {"rows", "empty", "not_supported"}
             THEN IF outcome = "rows" THEN <<DataFrame(k)>>
                  ELSE IF outcome = "empty" /\ t # <<>> /\ t[1] = "SHOW"
                       THEN <<Message(MsgShowEmpty)>>
                       ELSE <<>>
             ELSE <<Message(MsgStatementOk)>>

\* variant: a failing execute is swallowed per statement and the loop goes on
RECURSIVE ExecuteFromSwallowing(_, _, _, _)
ExecuteFromSwallowing(stmts, k, world, acc) ==
    IF k > Len(stmts) THEN acc
    ELSE IF world[k] = "cursor_raises"
         THEN [acc EXCEPT !.raised = TRUE]
         ELSE LET ran == [acc EXCEPT !.cursors = @ + 1,
                                     !.executed = Append(@, [stmt |-> stmts[k], k |-> k])]
              IN  IF world[k] = "execute_raises"
                  THEN ExecuteFromSwallowing(stmts, k + 1, world, ran)
                  ELSE ExecuteFromSwallowing(stmts, k + 1, world,
                           [ran EXCEPT !.results = @ \o StatementResults(stmts[k], k, world[k])])

\* the for loop of _snowflake_sql_executor from statement k on
RECURSIVE ExecuteFrom(_, _, _, _)
ExecuteFrom(stmts, k, world, acc) ==
    IF k > Len(stmts) THEN acc
    ELSE IF world[k] = "cursor_raises"
         THEN [acc EXCEPT !.raised = TRUE]
         ELSE LET ran == [acc EXCEPT !.cursors = @ + 1,
                                     !.executed = Append(@, [stmt |-> stmts[k], k |-> k])]
              IN  IF world[k] = "execute_raises"
                  THEN [ran EXCEPT !.raised = TRUE]
                  ELSE ExecuteFrom(stmts, k + 1, world,
                           [ran EXCEPT !.results = @ \o StatementResults(stmts[k], k, world[k])])

_snowflake_sql_executor(self, query, connectOk, world) ==
    LET c == _create_connection(self, connectOk)
        start == [raised |-> FALSE, results |-> <<>>, executed |-> <<>>, cursors |-> 0]
        run == IF c.raised THEN [start EXCEPT !.raised = TRUE]
               ELSE ExecuteFrom(SplitStatements(query), 1, world, start)
    IN  [self |-> c.self, connects |-> c.connects, usedConn |-> c.self.conn,
         raised |-> run.raised, results |-> run.results, executed |-> run.executed,
         cursors |-> run.cursors]

\* FILE('f') directives: every directive atom is replaced by the embedding of
\* the file's content, or by a comment when the file cannot be read
FileDirective == "FILE('f')"
FileContent == <<"{", ";", "}">>
FileStates == {"readable", "not_found", "unreadable"}

replace_directive(fileState) ==
    CASE fileState = "readable" -> <<"PARSE_JSON($$">> \o FileContent \o <<"$$)">>
      [] fileState = "not_found" -> <<"/*", " ", "FILE NOT FOUND: f */">>
      [] OTHER -> <<"/*", " ", "ERROR READING FILE f */">>

RECURSIVE _process_file_directives(_, _)
_process_file_directives(query, fileState) ==
    IF query = <<>> THEN <<>>
    ELSE (IF Head(query) = FileDirective THEN replace_directive(fileState)
          ELSE <<Head(query)>>) \o _process_file_directives(Tail(query), fileState)

\* variant: the flag is set before the connection attempt and never reset
InitializeFlaggingEarly(self, args, env, connectOk) ==
    LET captured == [self EXCEPT
            !.account = Or(args.account, env.account),
            !.user = Or(args.user, env.user),
            !.role = Or(args.role, env.role),
            !.private_key_path = Or(args.private_key_path, env.private_key_path),
            !.private_key_passphrase =
                Or(args.private_key_passphrase, env.private_key_passphrase)]
        all == /\ Truthy(captured.account) /\ Truthy(captured.user)
               /\ Truthy(captured.role) /\ Truthy(captured.private_key_path)
        c == _create_connection(captured, connectOk)
    IN  IF ~all
        THEN [self |-> captured, connects |-> <<>>, escaped |-> FALSE,
              output |-> <<Console(MsgInitializing), Console(MsgMissing)>>]
        ELSE IF c.raised
             THEN [self |-> [c.self EXCEPT !.initialized = TRUE], connects |-> c.connects,
                   escaped |-> FALSE,
                   output |-> <<Console(MsgInitializing), Console(MsgInitFailed)>>]
             ELSE [self |-> [c.self EXCEPT !.initialized = TRUE], connects |-> c.connects,
                   escaped |-> FALSE,
                   output |-> <<Console(MsgInitializing), Console(MsgConnected)>>]

\* args: the namespace returned by _parse_args; env: os.getenv
_initialize_connection(self, args, env, connectOk) ==
    LET captured == [self EXCEPT
            !.account = Or(args.account, env.account),
            !.user = Or(args.user, env.user),
            !.role = Or(args.role, env.role),
            !.private_key_path = Or(args.private_key_path, env.private_key_path),
            !.private_key_passphrase =
                Or(args.private_key_passphrase, env.private_key_passphrase)]
        all == /\ Truthy(captured.account) /\ Truthy(captured.user)
               /\ Truthy(captured.role) /\ Truthy(captured.private_key_path)
        c == _create_connection(captured, connectOk)
    IN  IF ~all
        THEN [self |-> captured, connects |-> <<>>, escaped |-> FALSE,
              output |-> <<Console(MsgInitializing), Console(MsgMissing)>>]
        ELSE IF c.raised
             THEN [self |-> [c.self EXCEPT !.initialized = FALSE], connects |-> c.connects,
                   escaped |-> FALSE,      \* except Exception
                   output |-> <<Console(MsgInitializing), Console(MsgInitFailed)>>]
             ELSE [self |-> [c.self EXCEPT !.initialized = TRUE], connects |-> c.connects,
                   escaped |-> FALSE,
                   output |-> <<Console(MsgInitializing), Console(MsgConnected)>>]

\* variant: every result counts as a DataFrame
IsAnyResult(res) == res.type \in {"DataFrame", "str"}

IsDataFrame(res) == res.type = "DataFrame"

\* display(res) for a DataFrame, print(res) for a message
Render(res) ==
    [op |-> IF IsDataFrame(res) THEN "display" ELSE "print",
     type |-> res.type, text |-> res.text, stmt |-> res.stmt]

RECURSIVE RenderAll(_)
RenderAll(results) ==
    IF results = <<>> THEN <<>> ELSE <<Render(Head(results))>> \o RenderAll(Tail(results))

\* self.shell.user_ns[var_name] = value
Bind(ns, var_name, value) ==
    [n \in (DOMAIN ns) \cup {var_name} |-> IF n = var_name THEN value ELSE ns[n]]

snowsql(self, ns, line, cell, fileState, connectOk, world) ==
    LET var_name == Strip(line)
        processed_cell == _process_file_directives(cell, fileState)
        r == _snowflake_sql_executor(self, processed_cell, connectOk, world)
        dataframe_results == SelectSeq(r.results, IsDataFrame)
        binding ==
            IF var_name # <<>>
            THEN (IF Len(dataframe_results) > 1 THEN <<Console(MsgMultiple)>> ELSE <<>>)
                 \o (IF dataframe_results # <<>> THEN <<Console(MsgStored)>>
                     ELSE <<Console(MsgNoDataFrame)>>)
            ELSE <<>>
        rendering ==
            IF r.results # <<>> THEN RenderAll(r.results) ELSE <<Console(MsgNoResults)>>
    IN  IF ~self.initialized
        THEN [self |-> self, ns |-> ns, connects |-> <<>>, executed |-> <<>>,
              cursors |-> 0, usedConn |-> self.conn, escaped |-> FALSE,
              output |-> <<Console(MsgNotInitialized)>>]
        ELSE IF r.raised
             THEN [self |-> r.self, ns |-> ns, connects |-> r.connects,
                   executed |-> r.executed, cursors |-> r.cursors, usedConn |-> r.usedConn,
                   escaped |-> FALSE,      \* except Exception
                   output |-> <<Console(MsgError)>>]
             ELSE [self |-> r.self,
                   ns |-> IF var_name # <<>> /\ dataframe_results # <<>>
                          THEN Bind(ns, var_name, dataframe_results[Len(dataframe_results)])
                          ELSE ns,
                   connects |-> r.connects, executed |-> r.executed,
                   cursors |-> r.cursors, usedConn |-> r.usedConn, escaped |-> FALSE,
                   output |-> binding \o rendering]

-----------------------------------------------------------------------------
(* The interactive session: commands run one at a time, to completion *)

EmptyNamespace == [n \in {} |-> None]

NoOut == [kind |-> "none"]

SessionInit ==
    /\ conn = NoConnection
    /\ initialized = FALSE
    /\ account = None /\ user = None /\ role = None
    /\ private_key_path = None /\ private_key_passphrase = None
    /\ user_ns = EmptyNamespace
    /\ pc = "idle"
    /\ out = NoOut
    /\ authSucceeded = FALSE

SplitIdle == sql_query = <<>> /\ statements = [computed |-> FALSE, list |-> <<>>]
ConvertIdle == files = [f \in {} |-> None] /\ report = [kind |-> "none"]

\* values of the command-line options and of the environment variables
ParamValues ==
    [account |-> "acct", user |-> "usr", role |-> "rl", private_key_path |-> "key.p8",
     private_key_passphrase |-> "pw"]

AllArgs == [ParamNames -> {None, "set"}]
Given(choice) == [p \in ParamNames |-> IF choice[p] = "set" THEN ParamValues[p] ELSE None]

\* the environment: nothing exported, or all five variables exported
Envs == {[p \in ParamNames |-> None], ParamValues}

Lines == {<<>>, <<" ">>, <<" ", "df", " ">>}
LifecycleLines == {<<>>, <<"df">>}
LifecycleAlphabet == {"SELECT", ";"}

CellAlphabet == {"insert", "SELECT", "show", ";", " "}
DirectiveCells == {<<"SELECT", " ", FileDirective>>}

SetSelf(s) ==
    /\ conn' = s.conn
    /\ initialized' = s.initialized
    /\ account' = s.account /\ user' = s.user /\ role' = s.role
    /\ private_key_path' = s.private_key_path
    /\ private_key_passphrase' = s.private_key_passphrase

\* the warehouse's answers to n statements; a statement after a raising one
\* is never submitted, so its answer is fixed to "rows"
Worlds(n) ==
    {w \in [1..n -> Outcomes] :
        \A i, j \in 1..n : (i < j /\ w[i] \in Raising) => w[j] = "rows"}

HasDirective(cell) == \E i \in 1..Len(cell) : cell[i] = FileDirective

\* %snowauth <line>
SnowauthOver(argSet, envSet) ==
    /\ pc = "idle"
    /\ \E args \in argSet, env \in envSet, connectOk \in BOOLEAN :
          LET r == _initialize_connection(Self, args, env, connectOk)
          IN  /\ SetSelf(r.self)
              /\ authSucceeded' = (authSucceeded \/ r.output[Len(r.output)].text = MsgConnected)
              /\ out' = [kind |-> "snowauth",
                         input |-> [line |-> <<>>, cell |-> <<>>, fileState |-> "readable",
                                    world |-> <<>>],
                         before |-> [self |-> Self, ns |-> user_ns],
                         output |-> r.output, connects |-> r.connects,
                         executed |-> <<>>, cursors |-> 0, usedConn |-> r.self.conn,
                         escaped |-> r.escaped]
    /\ pc' = "done"
    /\ UNCHANGED <<user_ns, splitVars, convVars>>

\* %%snowsql <line> / <cell>
SnowsqlOver(cellSet, lineSet) ==
    /\ pc = "idle"
    /\ \E line \in lineSet, cell \in cellSet :
       \E fileState \in IF HasDirective(cell) THEN FileStates ELSE {"readable"},
          connectOk \in IF initialized /\ NeedsConnect(Self) THEN BOOLEAN ELSE {TRUE} :
          \E world \in Worlds(Len(SplitStatements(_process_file_directives(cell, fileState)))) :
          LET r == snowsql(Self, user_ns, line, cell, fileState, connectOk, world)
          IN  /\ SetSelf(r.self)
              /\ user_ns' = r.ns
              /\ out' = [kind |-> "snowsql",
                         input |-> [line |-> line, cell |-> cell, fileState |-> fileState,
                                    world |-> world],
                         before |-> [self |-> Self, ns |-> user_ns],
                         output |-> r.output, connects |-> r.connects,
                         executed |-> r.executed, cursors |-> r.cursors,
                         usedConn |-> r.usedConn, escaped |-> r.escaped]
    /\ pc' = "done"
    /\ UNCHANGED <<authSucceeded, splitVars, convVars>>

\* the client library closes the connection (session expiry, network loss)
ConnectionCloses ==
    /\ pc = "idle"
    /\ conn.exists /\ ~conn.closed
    /\ conn' = [conn EXCEPT !.closed = TRUE]
    /\ UNCHANGED <<initialized, account, user, role, private_key_path,
                   private_key_passphrase, user_ns, pc, out, authSucceeded,
                   splitVars, convVars>>

\* the command has returned; the host accepts the next input
HostPrompt ==
    /\ pc = "done"
    /\ pc' = "idle"
    /\ out' = NoOut
    /\ UNCHANGED <<conn, initialized, account, user, role, private_key_path,
                   private_key_passphrase, user_ns, authSucceeded, splitVars, convVars>>

\* Connection lifecycle: every combination of options, short cells
LifecycleCellLen == 1
LifecycleCells == SeqsUpTo(LifecycleAlphabet, LifecycleCellLen)

Snowauth == SnowauthOver({Given(c) : c \in AllArgs}, Envs)
Snowsql == SnowsqlOver(LifecycleCells, LifecycleLines)

Init == SessionInit /\ SplitIdle /\ ConvertIdle
Next == Snowauth \/ Snowsql \/ ConnectionCloses \/ HostPrompt
Spec == Init /\ [][Next]_vars

\* SQL execution: one credential set, cells of up to MaxStatements statements
ExecArgs == {ParamValues, [ParamValues EXCEPT !.account = None]}

StatementTexts == {<<"insert">>, <<"SELECT">>, <<"show">>}

\* the statements of a batch, each followed by a semicolon and a blank
RECURSIVE Join(_)
Join(batch) ==
    IF batch = <<>> THEN <<>> ELSE Head(batch) \o <<";", " ">> \o Join(Tail(batch))

Cells == {Join(b) : b \in SeqsUpTo(StatementTexts, MaxStatements)} \cup DirectiveCells

ExecSnowauth == SnowauthOver(ExecArgs, {[p \in ParamNames |-> None]})
ExecSnowsql == SnowsqlOver(Cells, Lines)

NextExec == ExecSnowauth \/ ExecSnowsql \/ ConnectionCloses \/ HostPrompt
SpecExec == Init /\ [][NextExec]_vars

-----------------------------------------------------------------------------
(* Properties of the connection lifecycle (specification Spec) *)

Printed(text) == \E i \in 1..Len(out.output) : out.output[i] = Console(text)

RequiredPresent(self) ==
    /\ self.account # None /\ self.user # None
    /\ self.role # None /\ self.private_key_path # None

\* C1: an execution command run while no authenticate has succeeded yet prints
\* only the initialization error, opens no connection, creates no cursor,
\* executes no statement, and binds and renders nothing.
C1_NoExecutionBeforeAuth ==
    (out.kind = "snowsql" /\ ~authSucceeded) =>
        /\ out.output = <<Console(MsgNotInitialized)>>
        /\ out.connects = <<>>
        /\ out.cursors = 0
        /\ out.executed = <<>>
        /\ conn = out.before.self.conn
        /\ user_ns = out.before.ns

\* a cell with a statement and a target variable, run after an authenticate
\* that captured all parameters but failed to connect
C1_Witness ==
    /\ out.kind = "snowsql" /\ ~authSucceeded
    /\ RequiredPresent(Self)
    /\ out.input.cell = <<"SELECT">>
    /\ out.input.line = <<"df">>

\* C2: an authenticate that ends with a required value missing reports the
\* error, attempts no connection and leaves the extension uninitialized.
C2_MissingLeavesUninitialized ==
    (out.kind = "snowauth" /\ ~RequiredPresent(Self)) =>
        /\ Printed(MsgMissing)
        /\ out.connects = <<>>
        /\ ~initialized

\* C3: an authenticate with all required values attempts to open a connection;
\* success leaves the extension connected, a raised exception is reported and
\* leaves it uninitialized; nothing escapes.
C3_AuthenticateConnects ==
    (out.kind = "snowauth" /\ RequiredPresent(Self)) =>
        /\ out.connects = <<ConnectParams(Self)>>
        /\ \/ Printed(MsgConnected) /\ initialized /\ conn.exists /\ ~conn.closed
           \/ Printed(MsgInitFailed) /\ ~initialized
        /\ ~out.escaped

\* C4: an execution command opens a new connection with the captured
\* parameters iff none exists or the existing one is closed, and every
\* statement runs on an open connection opened with the captured parameters.
C4_StatementsUseCapturedParameters ==
    (out.kind = "snowsql" /\ out.before.self.initialized) =>
        /\ NeedsConnect(out.before.self) =>
               out.connects = <<ConnectParams(out.before.self)>>
        /\ ~NeedsConnect(out.before.self) =>
               out.connects = <<>> /\ out.usedConn = out.before.self.conn
        /\ out.executed # <<>> =>
               /\ out.usedConn.exists /\ ~out.usedConn.closed
               /\ out.usedConn.params = ConnectParams(Self)

-----------------------------------------------------------------------------
(* Properties of SQL execution (specification SpecExec) *)

\* the statement batch of the last execution command
Batch == SplitStatements(_process_file_directives(out.input.cell, out.input.fileState))

\* the execution command got as far as the statement loop
ReachedStatements ==
    /\ out.kind = "snowsql"
    /\ out.before.self.initialized
    /\ out.usedConn.exists /\ ~out.usedConn.closed

Failing == {k \in 1..Len(Batch) : out.input.world[k] \in Raising}
FirstFailure == CHOOSE k \in Failing : \A j \in Failing : k <= j

\* the statements whose answer is a non-empty table
Tabular ==
    {k \in 1..Len(Batch) : out.input.world[k] = "rows" /\ ~IsDml(statement_type(Batch[k]))}
LastTabular == CHOOSE k \in Tabular : \A j \in Tabular : j <= k

TargetVariable == Strip(out.input.line)

\* C5: when the k-th statement fails, no later statement is executed, nothing
\* is rendered, no variable is bound, exactly one error is reported and no
\* exception leaves the command.
C5_FailureAbortsAndDiscards ==
    (ReachedStatements /\ Failing # {}) =>
        /\ \A i \in 1..Len(out.executed) : out.executed[i].k <= FirstFailure
        /\ \A k \in 1..(FirstFailure - 1) :
               \E i \in 1..Len(out.executed) : out.executed[i].k = k
        /\ out.output = <<Console(MsgError)>>
        /\ user_ns = out.before.ns
        /\ ~out.escaped

\* the second of two statements fails after the first produced a table, and a
\* target variable was named
C5_Witness ==
    /\ ReachedStatements
    /\ Failing = {2}
    /\ out.input.world[1] = "rows"
    /\ statement_type(Batch[1]) = <<"SELECT">>
    /\ TargetVariable = <<"df">>

\* C6: an execution command that completes without a statement failure binds
\* the target variable to the last tabular result (never to a message), warns
\* of multiple results iff there is more than one table, and binds nothing and
\* warns when there is none; without a target variable nothing is bound.
C6_BindsLastTabularResult ==
    (ReachedStatements /\ Failing = {}) =>
        IF TargetVariable = <<>>
        THEN user_ns = out.before.ns
        ELSE /\ Printed(MsgMultiple) <=> Cardinality(Tabular) > 1
             /\ Printed(MsgNoDataFrame) <=> Tabular = {}
             /\ IF Tabular = {}
                THEN user_ns = out.before.ns
                ELSE /\ TargetVariable \in DOMAIN user_ns
                     /\ user_ns[TargetVariable] = DataFrame(LastTabular)
                     /\ \A n \in DOMAIN out.before.ns :
                            n # TargetVariable => user_ns[n] = out.before.ns[n]

\* an INSERT and a SELECT with rows, with a target variable: the table is bound
C6_Witness ==
    /\ ReachedStatements /\ Failing = {}
    /\ TargetVariable = <<"df">>
    /\ Len(Batch) = 2
    /\ statement_type(Batch[1]) = <<"SELECT">> /\ out.input.world[1] = "rows"
    /\ statement_type(Batch[2]) = <<"INSERT">> /\ out.input.world[2] = "rows"
    /\ user_ns[<<"df">>] = DataFrame(1)

-----------------------------------------------------------------------------
(* The statement splitter on its own (specification SpecSplit) *)

SplitAlphabet == {"'", "\"", ";", " ", "x"}

InitSplit ==
    /\ SessionInit /\ ConvertIdle
    /\ sql_query \in SeqsUpTo(SplitAlphabet, MaxTextLen)
    /\ statements = [computed |-> FALSE, list |-> <<>>]

\* statements = re.split(...); statements = [s.strip() for s in statements if s.strip()]
SplitQuery ==
    /\ ~statements.computed
    /\ statements' = [computed |-> TRUE, list |-> SplitStatements(sql_query)]
    /\ UNCHANGED <<sql_query, sessionVars, convVars>>

NextSplit == SplitQuery
SpecSplit == InitSplit /\ [][NextSplit]_vars

\* The semicolons outside quoted spans, found by scanning the text from the
\* left.  closedOnly: a quote character without a closing partner opens no
\* span; otherwise it opens a span that runs to the end of the text.
RECURSIVE UnquotedSemicolons(_, _, _, _)
UnquotedSemicolons(text, i, q, closedOnly) ==
    IF i > Len(text) THEN {}
    ELSE IF q # None
         THEN UnquotedSemicolons(text, i + 1, IF text[i] = q THEN None ELSE q, closedOnly)
         ELSE IF text[i] \in {"'", "\""}
              THEN IF closedOnly /\ ~\E j \in (i + 1)..Len(text) : text[j] = text[i]
                   THEN UnquotedSemicolons(text, i + 1, None, closedOnly)
                   ELSE UnquotedSemicolons(text, i + 1, text[i], closedOnly)
              ELSE (IF text[i] = ";" THEN {i} ELSE {})
                   \cup UnquotedSemicolons(text, i + 1, None, closedOnly)

\* the pieces of the text between the given cut positions, in order
RECURSIVE CutAt(_, _, _)
CutAt(text, cuts, from) ==
    IF \E c \in cuts : c >= from
    THEN LET c == CHOOSE c \in cuts : c >= from /\ \A d \in cuts : d >= from => c <= d
         IN  <<SubSeq(text, from, c - 1)>> \o CutAt(text, cuts, c + 1)
    ELSE <<SubSeq(text, from, Len(text))>>

Trimmed(pieces) == [i \in 1..Len(pieces) |-> Strip(pieces[i])]
NonEmpty(piece) == piece # <<>>

QuoteAwareSplit(text, closedOnly) ==
    SelectSeq(Trimmed(CutAt(text, UnquotedSemicolons(text, 1, None, closedOnly), 1)),
              NonEmpty)

\* C7: for every SQL text the statement batch is the text split at exactly the
\* semicolons outside quoted spans, pieces trimmed, empty pieces dropped, order
\* kept (under either reading of an unterminated quote).
C7_SplitsAtUnquotedSemicolons ==
    statements.computed =>
        \/ statements.list = QuoteAwareSplit(sql_query, FALSE)
        \/ statements.list = QuoteAwareSplit(sql_query, TRUE)

\* On texts whose quotes are all closed the batch is the quote-aware split.
QuotesClosed(text) == LookaheadMatches(text, 1, None)
SplitAgreesOnClosedQuotes ==
    (statements.computed /\ QuotesClosed(sql_query)) =>
        statements.list = QuoteAwareSplit(sql_query, FALSE)

-----------------------------------------------------------------------------
(* convert_notebook (specification SpecConvert) *)

\* A cell: metadata is absent or a mapping whose "language" is absent (None)
\* or a tag; source is absent, one string or a list of lines.
Metadata(language) == [present |-> TRUE, language |-> language]
NoMetadata == [present |-> FALSE, language |-> None]
Source(kind, value) == [kind |-> kind, value |-> value]
NoSource == Source("absent", <<>>)

Marker == "%%snowsql\n"

\* uuid4 values are opaque; one token stands for the identifiers of a run
Uuids == {"uuid-a", "uuid-b"}

Markdown(id, text) ==
    [cell_type |-> "markdown", id |-> id, metadata |-> NoMetadata,
     source |-> Source("str", <<text>>)]
PythonCode(id, text) ==
    [cell_type |-> "code", id |-> id, metadata |-> Metadata("python"),
     source |-> Source("str", <<text>>)]

new_cells_at_beginning(id) ==
    << Markdown(id, "# Prepare python environment"),
       PythonCode(id, "%%capture pip_install_output\n%pip install streamlit ipython"),
       Markdown(id, "Install snowflake sql magics extension and configure it"),
       PythonCode(id, "%reload_ext snowflake_sql_magics ... %snowauth ..."),
       Markdown(id, "## Test the connection"),
       PythonCode(id, "%%snowsql test_connection\nSELECT CURRENT_USER(), ...;") >>

\* variant: the marker goes to the end of the source
ConvertCellAppending(cell) ==
    IF cell.cell_type = "code" /\ cell.metadata.language = "sql"
    THEN [cell EXCEPT
            !.metadata.language = "python",
            !.source = IF cell.source.kind = "str"
                       THEN Source("str", cell.source.value \o <<Marker>>)
                       ELSE Source("list", cell.source.value \o <<Marker>>)]
    ELSE cell

\* variant: the language tag is left as it is
ConvertCellKeepingLanguage(cell) ==
    IF cell.cell_type = "code" /\ cell.metadata.language = "sql"
    THEN [cell EXCEPT
            !.source = IF cell.source.kind = "str"
                       THEN Source("str", <<Marker>> \o cell.source.value)
                       ELSE Source("list", <<Marker>> \o cell.source.value)]
    ELSE cell

\* the body of the for loop over the cells
ConvertCell(cell) ==
    IF cell.cell_type = "code" /\ cell.metadata.language = "sql"
    THEN [cell EXCEPT
            !.metadata.language = "python",
            !.source = IF cell.source.kind = "str"
                       THEN Source("str", <<Marker>> \o cell.source.value)
                       ELSE Source("list", <<Marker>> \o cell.source.value)]
    ELSE cell

ConvertCells(cells) == [i \in 1..Len(cells) |-> ConvertCell(cells[i])]

\* notebook["cells"] = new cells + notebook.setdefault("cells", []), then the loop
ConvertDocument(notebook, id) ==
    [notebook EXCEPT
        !.hasCells = TRUE,
        !.cells = ConvertCells(new_cells_at_beginning(id) \o notebook.cells)]

\* what a file holds
Missing == [kind |-> "missing", origin |-> "user",
            notebook |-> [hasCells |-> FALSE, cells |-> <<>>, nbformat |-> 4]]
Unusable(kind) == [Missing EXCEPT !.kind = kind]
Document(notebook, origin) == [kind |-> "notebook", origin |-> origin, notebook |-> notebook]

\* content on which json.load succeeds but which is no notebook
NotANotebook == {"not_mapping", "cells_not_list", "cell_not_mapping"}

InputCells ==
    [cell_type : {"markdown", "code"}, id : {"c"},
     metadata : {NoMetadata, Metadata(None), Metadata("sql"), Metadata("python")},
     source : {NoSource, Source("str", <<"SELECT 1">>), Source("list", <<"SELECT 1">>)}]

InputNotebooks ==
    {[hasCells |-> TRUE, cells |-> cs, nbformat |-> 4] : cs \in SeqsUpTo(InputCells, MaxCells)}
    \cup {[hasCells |-> FALSE, cells |-> <<>>, nbformat |-> 4]}

InputFiles ==
    {Document(nb, "user") : nb \in InputNotebooks}
    \cup {Missing, Unusable("not_json")} \cup {Unusable(k) : k \in NotANotebook}

FileNames == {"in.ipynb", "out.ipynb"}
\* the user's notebook is only read; every run writes out.ipynb
OutputNames == {"out.ipynb"}

InitConvert ==
    /\ SessionInit /\ SplitIdle
    /\ \E content \in InputFiles :
          files = [f \in FileNames |-> IF f = "in.ipynb" THEN content ELSE Missing]
    /\ report = [kind |-> "none"]

\* the effects of one run on the content read from the input file
convert_notebook(content, id, writeOk) ==
    CASE content.kind = "missing" ->
            [message |-> "Error: Input file not found", escaped |-> FALSE,
             wrote |-> FALSE, written |-> Missing]
      [] content.kind = "not_json" ->
            [message |-> "Error: Could not decode JSON", escaped |-> FALSE,
             wrote |-> FALSE, written |-> Missing]
      [] content.kind \in NotANotebook ->      \* AttributeError or TypeError
            [message |-> None, escaped |-> TRUE, wrote |-> FALSE, written |-> Missing]
      [] OTHER ->
            IF writeOk
            THEN [message |-> "Successfully converted", escaped |-> FALSE, wrote |-> TRUE,
                  written |-> Document(ConvertDocument(content.notebook, id), "converter")]
            ELSE [message |-> "Error writing to output file", escaped |-> FALSE,
                  wrote |-> FALSE, written |-> Missing]

\* python convert_snowflake_notebook.py <input> <output>
Convert ==
    \E input \in FileNames, output \in OutputNames, id \in Uuids, writeOk \in BOOLEAN :
        /\ Len(files[input].notebook.cells) <= MaxCells + 6 * (MaxRuns - 1)
        /\ LET r == convert_notebook(files[input], id, writeOk)
           IN  /\ files' = IF r.wrote THEN [files EXCEPT ![output] = r.written] ELSE files
               /\ report' = [kind |-> "convert", input |-> input, output |-> output,
                             read |-> files[input], message |-> r.message,
                             escaped |-> r.escaped, wrote |-> r.wrote,
                             written |-> r.written]
        /\ UNCHANGED <<sessionVars, splitVars>>

NextConvert == Convert
SpecConvert == InitConvert /\ [][NextConvert]_vars

-----------------------------------------------------------------------------
(* Properties of the converter (specification SpecConvert) *)

IsSqlCode(cell) == cell.cell_type = "code" /\ cell.metadata.language = "sql"

\* o is the cell the claim expects for the input cell c
ConvertedAsSpecified(c, o) ==
    IF IsSqlCode(c)
    THEN /\ o.cell_type = "code" /\ o.id = c.id
         /\ o.metadata = Metadata("python")
         /\ o.source.value # <<>> /\ Head(o.source.value) = Marker
         /\ Tail(o.source.value) = c.source.value
         /\ c.source.kind = "str" => o.source.kind = "str"
         /\ c.source.kind = "list" => o.source.kind = "list"
    ELSE o = c

\* the setup cells, in order: their types, and python as the language of the
\* code cells
IsSetupCells(cells) ==
    /\ \A i \in 1..Len(cells) :
          /\ cells[i].cell_type = (IF i % 2 = 1 THEN "markdown" ELSE "code")
          /\ cells[i].id \in Uuids
          /\ cells[i].source.kind = "str"
          /\ cells[i].cell_type = "code" => cells[i].metadata = Metadata("python")
    /\ \A i, j \in 1..Len(cells) : i # j => cells[i].source # cells[j].source

OutputIsSetupPlusInput(count) ==
    LET old == report.read.notebook
        new == report.written.notebook
    IN  /\ Len(new.cells) = count + Len(old.cells)
        /\ IsSetupCells(SubSeq(new.cells, 1, count))
        /\ \A i \in 1..Len(old.cells) :
              ConvertedAsSpecified(old.cells[i], new.cells[count + i])
        /\ new.nbformat = old.nbformat
        /\ \A i \in 1..Len(new.cells) : ~IsSqlCode(new.cells[i])
        /\ files[report.output] = report.written

ConvertedUserNotebook ==
    /\ report.kind = "convert" /\ report.wrote
    /\ report.read.origin = "user"

\* C8 (as claimed): the output is five setup cells followed by the input cells
\* in order, SQL code cells converted, all else unchanged, no SQL code cell left.
C8_FiveSetupCells == ConvertedUserNotebook => OutputIsSetupPlusInput(5)

\* C8 (amended): the same with six setup cells.
C8_SixSetupCells == ConvertedUserNotebook => OutputIsSetupPlusInput(6)

\* a notebook with a SQL cell in string form and one in list form
C8_Witness ==
    /\ ConvertedUserNotebook
    /\ Len(report.read.notebook.cells) = 2
    /\ \A i \in 1..2 : IsSqlCode(report.read.notebook.cells[i])
    /\ report.read.notebook.cells[1].source.kind = "str"
    /\ report.read.notebook.cells[2].source.kind = "list"

\* C9: a run on the converter's own output changes none of the cells of that
\* output: they keep their language and gain no second marker line.
C9_SecondRunChangesNoCell ==
    (report.kind = "convert" /\ report.wrote /\ report.read.origin = "converter") =>
        LET old == report.read.notebook.cells
            new == report.written.notebook.cells
        IN  /\ Len(new) >= Len(old)
            /\ \A i \in 1..Len(old) : new[Len(new) - Len(old) + i] = old[i]

\* the second run reads a notebook in which the first run converted a SQL cell
C9_Witness ==
    /\ report.kind = "convert" /\ report.wrote /\ report.read.origin = "converter"
    /\ files["in.ipynb"].kind = "notebook"
    /\ \E i \in 1..Len(files["in.ipynb"].notebook.cells) :
          /\ IsSqlCode(files["in.ipynb"].notebook.cells[i])
          /\ files["in.ipynb"].notebook.cells[i].source.kind = "list"

\* C10: a missing or malformed input is reported, nothing is written and no
\* exception escapes.
C10_BadInputIsReported ==
    (report.kind = "convert" /\ report.read.kind # "notebook") =>
        /\ report.message # None
        /\ ~report.wrote
        /\ files[report.output] = Missing
        /\ ~report.escaped

====
